---- MODULE Spec2Model ----
(***************************************************************************)
(* The Socket.io chat server of src/server/server.js as a state machine.   *)
(*                                                                         *)
(* The persistent store (collections User, Room, Message), the transport's *)
(* subscription sets, the in-memory typing map and every event handler in  *)
(* flight are the state.  A handler is a sequence of steps: one step is    *)
(* one awaited store operation together with the synchronous code that     *)
(* follows it up to the next await.  Handlers of all connections           *)
(* interleave at these steps.  Any awaited store operation may reject;     *)
(* the handler's catch block then runs.                                    *)
(***************************************************************************)
EXTENDS Integers, Sequences, FiniteSets, TLC

\* ------------------------------------------------------------- bounds
MaxHandlers == 2    \* handler invocations in one behaviour
MaxInFlight == 2    \* handlers in flight at once
MaxFaults == 1      \* store operations that reject in one behaviour
MaxTime == 2        \* the clock reads 0..MaxTime
MaxMsgs == 3        \* messages in the store when a page is requested
MaxSkip == 2        \* offsets a page request passes
MaxTake == 2        \* limits a page request passes
MaxPages == 1       \* page requests in one behaviour

\* ------------------------------------------------------------- values
Conn == {"c1", "c2"}
Usernames == {"ann", "bob"}
General == "general"
Random == "random"
Anonymous == "Anonymous"
\* what a Map-of-String entry holds after $set with an undefined value
NullName == "null"

\* room names a client may pass to create_room, as character sequences
RoomNames == {<<"D", "e", "v">>, <<"d", "e", "v">>,
              <<"D", "e", " ", "\t", "V">>, <<"d", "e", " ", "v">>,
              <<"G", "e", "n", "e", "r", "a", "l">>}
\* every room identifier that can exist
RoomIds == {General, Random, "dev", "de-v"}
\* the room identifiers clients join and post to
Targets == {General, Random, "dev"}
\* what io.to(...) can address: a socket's own room, or a joined room
Labels == Conn \cup RoomIds

UpperCase == <<"A", "B", "C", "D", "E", "F", "G", "H", "I", "J", "K", "L", "M",
               "N", "O", "P", "Q", "R", "S", "T", "U", "V", "W", "X", "Y", "Z">>
LowerCase == <<"a", "b", "c", "d", "e", "f", "g", "h", "i", "j", "k", "l", "m",
               "n", "o", "p", "q", "r", "s", "t", "u", "v", "w", "x", "y", "z">>
Whitespace == {" ", "\t", "\n"}

ToLowerChar(ch) ==
  IF \E i \in 1..Len(UpperCase) : UpperCase[i] = ch
  THEN LowerCase[CHOOSE i \in 1..Len(UpperCase) : UpperCase[i] = ch]
  ELSE ch

\* roomName.toLowerCase().replace(/\s+/g, '-')
RECURSIVE SlugFrom(_, _)
SlugFrom(s, inWs) ==
  IF s = <<>> THEN ""
  ELSE IF Head(s) \in Whitespace
       THEN (IF inWs THEN "" ELSE "-") \o SlugFrom(Tail(s), TRUE)
       ELSE ToLowerChar(Head(s)) \o SlugFrom(Tail(s), FALSE)

DeriveRoomId(roomName) == SlugFrom(roomName, FALSE)

RECURSIVE Spell(_)
Spell(s) == IF s = <<>> THEN "" ELSE Head(s) \o Spell(Tail(s))

\* ------------------------------------------------------------- maps
EmptyMap == [k \in {} |-> ""]
Put(m, k, v) == [x \in (DOMAIN m) \cup {k} |-> IF x = k THEN v ELSE m[x]]
Del(m, k) == [x \in (DOMAIN m) \ {k} |-> m[x]]

\* ------------------------------------------------------------- state
VARIABLES
  connected,    \* [Conn -> BOOLEAN]: the socket is connected
  subs,         \* [Conn -> SUBSET Labels]: transport rooms the socket is in
  users,        \* [Conn -> user document], keyed by socketId
  rooms,        \* [RoomIds -> room document]
  messages,     \* sequence of message documents; _id is the index
  typingUsers,  \* the in-memory typing map: connection -> username
  handlers,     \* every handler invoked so far, with its position and locals
  log,          \* every event emitted so far, in emission order
  now,          \* the clock new Date() reads
  faults        \* store operations rejected so far

vars == <<connected, subs, users, rooms, messages, typingUsers, handlers, log,
          now, faults>>

NoUser == [exists |-> FALSE, username |-> "", isOnline |-> FALSE,
           currentRoom |-> "", lastSeen |-> 0]
NoRoom == [exists |-> FALSE, name |-> "", users |-> EmptyMap,
           messageCount |-> 0, createdBy |-> ""]

\* defaults of the Room schema for a created room
NewRoom(name, creator) ==
  [exists |-> TRUE, name |-> name, users |-> EmptyMap, messageCount |-> 0,
   createdBy |-> creator]

\* defaults of the Message schema, overridden by the payload
NewMessage ==
  [sender |-> "", senderId |-> "", message |-> "", room |-> General,
   isFile |-> FALSE, isPrivate |-> FALSE, recipient |-> "",
   delivered |-> TRUE, read |-> FALSE, reactions |-> EmptyMap, timestamp |-> 0]

\* a handler invocation: its arguments, its position and its locals
H0 == [kind |-> "", conn |-> "", pc |-> "done", name |-> "", room |-> "",
       text |-> "", mid |-> 0, flag |-> FALSE, ts |-> 0, user |-> NoUser,
       todo |-> {}, cur |-> "", off |-> 0, lim |-> 0, res |-> <<>>,
       len0 |-> 0,
       failed |-> FALSE, solo |-> TRUE, wasIn |-> {}, bound |-> FALSE,
       existed |-> FALSE, nan |-> {}]

\* an emitted event: its name, the connections it is delivered to, the
\* handler that emitted it, and its payload; members is the key set of the
\* target room's member map at the moment of a room broadcast, and held is
\* what the store holds of a disconnected connection at the moment its
\* disconnect handler emits
E0 == [ev |-> "", dest |-> {}, h |-> 0, room |-> "", mid |-> 0, who |-> "",
       text |-> "", map |-> EmptyMap, set |-> {}, more |-> FALSE, seq |-> <<>>,
       members |-> {}, held |-> {}]

\* ------------------------------------------------------------- transport
Connected == {c \in Conn : connected[c]}
ToAll == Connected                                      \* io.emit
ToLabel(l) == {c \in Connected : l \in subs[c]}         \* io.to(l).emit
ToSocket(c) == IF connected[c] THEN {c} ELSE {}         \* socket.emit
ToOthers(c) == Connected \ {c}                          \* socket.broadcast.emit


Emit(events) == log' = log \o events

\* ------------------------------------------------------------- handlers
InFlight(h) == handlers[h].pc # "done"
At(h, kind, pc) ==
  /\ h \in DOMAIN handlers
  /\ handlers[h].kind = kind
  /\ handlers[h].pc = pc
Self(h) == handlers[h].conn

\* a client event arrives on connection c and its handler is invoked
Invoke(c, rec) ==
  /\ connected[c]
  /\ Len(handlers) < MaxHandlers
  /\ Cardinality({h \in DOMAIN handlers : InFlight(h)}) < MaxInFlight
  /\ LET busy == \E h \in DOMAIN handlers : InFlight(h) /\ Self(h) = c
         mark == [h \in DOMAIN handlers |->
                    IF InFlight(h) /\ Self(h) = c
                    THEN [handlers[h] EXCEPT !.solo = FALSE]
                    ELSE handlers[h]]
     IN handlers' = Append(mark, [rec EXCEPT !.conn = c, !.solo = ~busy])

Goto(h, pc) == handlers' = [handlers EXCEPT ![h].pc = pc]

InitStore ==
  /\ connected = [c \in Conn |-> TRUE]
  /\ subs = [c \in Conn |-> {c}]
  /\ users = [c \in Conn |-> NoUser]
  /\ rooms = [r \in RoomIds |->
                IF r = General THEN NewRoom("General", "system")
                ELSE IF r = Random THEN NewRoom("Random", "system")
                ELSE NoRoom]
  /\ messages = <<>>
  /\ typingUsers = EmptyMap
  /\ handlers = <<>>
  /\ log = <<>>
  /\ now = 0
  /\ faults = 0

\* the user document user_join leaves for connection c
JoinedUser(c, username, ts) ==
  [exists |-> TRUE, username |-> username, isOnline |-> TRUE,
   currentRoom |-> General, lastSeen |-> ts]

\* The store after user_join has completed on the connections of `bound`
\* (each under its own username) and on no other, and typing(true) on the
\* connections of `typers`; handlers and log record what is invoked and
\* emitted from here on.
InitBound(bound, typers, nameOf) ==
  /\ connected = [c \in Conn |-> TRUE]
  /\ subs = [c \in Conn |-> IF c \in bound THEN {c, General} ELSE {c}]
  /\ users = [c \in Conn |->
                IF c \in bound THEN JoinedUser(c, nameOf[c], 0) ELSE NoUser]
  /\ rooms = [r \in RoomIds |->
                IF r = General
                THEN [NewRoom("General", "system") EXCEPT
                        !.users = [c \in bound |-> nameOf[c]]]
                ELSE IF r = Random THEN NewRoom("Random", "system")
                ELSE NoRoom]
  /\ messages = <<>>
  /\ typingUsers = [c \in typers |-> nameOf[c]]
  /\ handlers = <<>>
  /\ log = <<>>
  /\ now = 0
  /\ faults = 0

Tick ==
  /\ now < MaxTime
  /\ now' = now + 1
  /\ UNCHANGED <<connected, subs, users, rooms, messages, typingUsers,
                 handlers, log, faults>>

\* the keys of room's member map (Room.users)
Members(room) ==
  IF room \in RoomIds /\ rooms[room].exists THEN DOMAIN rooms[room].users
  ELSE {}

\* ------------------------------------------------------------- user_join
StartUserJoin(c, username) ==
  /\ Invoke(c, [H0 EXCEPT !.kind = "user_join", !.pc = "upsert",
                          !.name = username, !.ts = now])
  /\ UNCHANGED <<connected, subs, users, rooms, messages, typingUsers, log,
                 now, faults>>

\* User.findOneAndUpdate(..., {upsert: true}); socket.join('general')
UserJoinUpsert(h) ==
  /\ At(h, "user_join", "upsert")
  /\ users' = [users EXCEPT ![Self(h)] =
                 JoinedUser(Self(h), handlers[h].name, handlers[h].ts)]
  /\ subs' = [subs EXCEPT ![Self(h)] = @ \cup {General}]
  /\ Goto(h, "setMember")
  /\ UNCHANGED <<connected, rooms, messages, typingUsers, log, now, faults>>

\* Room.findOneAndUpdate({roomId: 'general'}, {$set: {users.<id>: username}})
UserJoinSetMember(h) ==
  /\ At(h, "user_join", "setMember")
  /\ rooms' = [rooms EXCEPT ![General].users =
                 Put(@, Self(h), handlers[h].name)]
  /\ Goto(h, "findOnline")
  /\ UNCHANGED <<connected, subs, users, messages, typingUsers, log, now,
                 faults>>

OnlineUsers == {c \in Conn : users[c].exists /\ users[c].isOnline}
AllRooms == {r \in RoomIds : rooms[r].exists}

\* User.find({isOnline: true})
UserJoinFindOnline(h) ==
  /\ At(h, "user_join", "findOnline")
  /\ handlers' = [handlers EXCEPT ![h].pc = "findRooms",
                                  ![h].todo = OnlineUsers]
  /\ UNCHANGED <<connected, subs, users, rooms, messages, typingUsers, log,
                 now, faults>>

\* UserJoinFindRooms emitting the room list to every connection
UserJoinFindRoomsToAll(h) ==
  /\ At(h, "user_join", "findRooms")
  /\ Emit(<<[E0 EXCEPT !.ev = "user_list", !.dest = ToAll, !.h = h,
                       !.set = handlers[h].todo],
            [E0 EXCEPT !.ev = "user_joined", !.dest = ToAll, !.h = h,
                       !.who = Self(h), !.text = handlers[h].name],
            [E0 EXCEPT !.ev = "room_list", !.dest = ToAll,
                       !.h = h, !.set = AllRooms]>>)
  /\ Goto(h, "done")
  /\ UNCHANGED <<connected, subs, users, rooms, messages, typingUsers, now,
                 faults>>

\* Room.find({}); the three emits
UserJoinFindRooms(h) ==
  /\ At(h, "user_join", "findRooms")
  /\ Emit(<<[E0 EXCEPT !.ev = "user_list", !.dest = ToAll, !.h = h,
                       !.set = handlers[h].todo],
            [E0 EXCEPT !.ev = "user_joined", !.dest = ToAll, !.h = h,
                       !.who = Self(h), !.text = handlers[h].name],
            [E0 EXCEPT !.ev = "room_list", !.dest = ToSocket(Self(h)),
                       !.h = h, !.set = AllRooms]>>)
  /\ Goto(h, "done")
  /\ UNCHANGED <<connected, subs, users, rooms, messages, typingUsers, now,
                 faults>>

UserJoin(h) ==
  \/ UserJoinUpsert(h)
  \/ UserJoinSetMember(h)
  \/ UserJoinFindOnline(h)
  \/ UserJoinFindRooms(h)

\* ------------------------------------------------------------- join_room
MemberOf(c) == {r \in RoomIds : rooms[r].exists /\ c \in DOMAIN rooms[r].users}

StartJoinRoom(c, roomId) ==
  /\ Invoke(c, [H0 EXCEPT !.kind = "join_room", !.pc = "findMine",
                          !.room = roomId, !.wasIn = MemberOf(c),
                          !.bound = users[c].exists,
                          !.existed = rooms[roomId].exists])
  /\ UNCHANGED <<connected, subs, users, rooms, messages, typingUsers, log,
                 now, faults>>

\* Room.find({users.<id>: {$exists: true}}); the loop's first socket.leave
JoinRoomFindMine(h) ==
  /\ At(h, "join_room", "findMine")
  /\ LET mine == MemberOf(Self(h)) IN
       IF mine = {}
       THEN /\ Goto(h, "setCurrent")
            /\ UNCHANGED subs
       ELSE \E r \in mine :
              /\ subs' = [subs EXCEPT ![Self(h)] = @ \ {r}]
              /\ handlers' = [handlers EXCEPT ![h].pc = "unset",
                                              ![h].cur = r,
                                              ![h].todo = mine \ {r}]
  /\ UNCHANGED <<connected, users, rooms, messages, typingUsers, log, now,
                 faults>>

\* JoinRoomUnset with the $unset lost: the loop only leaves the transport
\* rooms
JoinRoomUnsetLost(h) ==
  /\ At(h, "join_room", "unset")
  /\ IF handlers[h].todo = {}
     THEN /\ handlers' = [handlers EXCEPT ![h].pc = "setCurrent",
                                          ![h].cur = ""]
          /\ UNCHANGED subs
     ELSE \E r \in handlers[h].todo :
            /\ subs' = [subs EXCEPT ![Self(h)] = @ \ {r}]
            /\ handlers' = [handlers EXCEPT ![h].cur = r,
                                            ![h].todo = @ \ {r}]
  /\ UNCHANGED <<connected, users, rooms, messages, typingUsers, log, now,
                 faults>>

\* Room.findOneAndUpdate({roomId}, {$unset: {users.<id>: 1}}); the next
\* iteration's socket.leave
JoinRoomUnset(h) ==
  /\ At(h, "join_room", "unset")
  /\ rooms' = [rooms EXCEPT ![handlers[h].cur].users = Del(@, Self(h))]
  /\ IF handlers[h].todo = {}
     THEN /\ handlers' = [handlers EXCEPT ![h].pc = "setCurrent",
                                          ![h].cur = ""]
          /\ UNCHANGED subs
     ELSE \E r \in handlers[h].todo :
            /\ subs' = [subs EXCEPT ![Self(h)] = @ \ {r}]
            /\ handlers' = [handlers EXCEPT ![h].cur = r,
                                            ![h].todo = @ \ {r}]
  /\ UNCHANGED <<connected, users, messages, typingUsers, log, now, faults>>

\* User.findOneAndUpdate({socketId}, {currentRoom: roomId});
\* socket.join(roomId)
JoinRoomSetCurrent(h) ==
  /\ At(h, "join_room", "setCurrent")
  /\ users' = [users EXCEPT ![Self(h)] =
                 IF @.exists THEN [@ EXCEPT !.currentRoom = handlers[h].room]
                 ELSE @]
  /\ subs' = [subs EXCEPT ![Self(h)] = @ \cup {handlers[h].room}]
  /\ Goto(h, "findRoom")
  /\ UNCHANGED <<connected, rooms, messages, typingUsers, log, now, faults>>

\* Room.findOne({roomId}); if (room) ...
JoinRoomFindRoom(h) ==
  /\ At(h, "join_room", "findRoom")
  /\ handlers' = [handlers EXCEPT
                    ![h].pc = IF rooms[handlers[h].room].exists
                              THEN "findUser" ELSE "done",
                    ![h].text = rooms[handlers[h].room].name]
  /\ UNCHANGED <<connected, subs, users, rooms, messages, typingUsers, log,
                 now, faults>>

\* (await User.findOne({socketId}))?.username
JoinRoomFindUser(h) ==
  /\ At(h, "join_room", "findUser")
  /\ handlers' = [handlers EXCEPT ![h].pc = "setMember",
                                  ![h].user = users[Self(h)]]
  /\ UNCHANGED <<connected, subs, users, rooms, messages, typingUsers, log,
                 now, faults>>

\* the events join_room emits once the member is set
JoinRoomEvents(h) ==
  <<[E0 EXCEPT !.ev = "room_joined", !.dest = ToSocket(Self(h)), !.h = h,
               !.room = handlers[h].room, !.text = handlers[h].text],
    [E0 EXCEPT !.ev = "notification", !.dest = ToLabel(handlers[h].room),
               !.h = h, !.room = handlers[h].room,
               !.text = "user_joined_room"]>>

\* Room.findOneAndUpdate({roomId}, {$set: {users.<id>: username}}); with no
\* User document the value is undefined: the key is dropped from the update
\* or stored as null, depending on the driver
JoinRoomSetMember(h) ==
  /\ At(h, "join_room", "setMember")
  /\ \/ /\ handlers[h].user.exists
        /\ rooms' = [rooms EXCEPT ![handlers[h].room].users =
                       Put(@, Self(h), handlers[h].user.username)]
     \/ /\ ~handlers[h].user.exists
        /\ \/ rooms' = [rooms EXCEPT ![handlers[h].room].users =
                          Put(@, Self(h), NullName)]
           \/ UNCHANGED rooms
  /\ Emit(JoinRoomEvents(h))
  /\ Goto(h, "done")
  /\ UNCHANGED <<connected, subs, users, messages, typingUsers, now, faults>>

JoinRoom(h) ==
  \/ JoinRoomFindMine(h)
  \/ JoinRoomUnset(h)
  \/ JoinRoomSetCurrent(h)
  \/ JoinRoomFindRoom(h)
  \/ JoinRoomFindUser(h)
  \/ JoinRoomSetMember(h)

\* ------------------------------------------------------------- create_room
StartCreateRoom(c, roomName) ==
  /\ Invoke(c, [H0 EXCEPT !.kind = "create_room", !.pc = "findRoom",
                          !.room = DeriveRoomId(roomName),
                          !.name = Spell(roomName)])
  /\ UNCHANGED <<connected, subs, users, rooms, messages, typingUsers, log,
                 now, faults>>

\* Room.findOne({roomId}); if (!existingRoom) ...
CreateRoomFindRoom(h) ==
  /\ At(h, "create_room", "findRoom")
  /\ Goto(h, IF rooms[handlers[h].room].exists THEN "done" ELSE "create")
  /\ UNCHANGED <<connected, subs, users, rooms, messages, typingUsers, log,
                 now, faults>>

\* roomSchema.roomId is unique: the index rejects a second document
RoomIdTaken(roomId) == rooms[roomId].exists

\* Room.create({roomId, name, createdBy}); a duplicate key rejects and the
\* catch block emits 'error'
CreateRoomCreate(h) ==
  /\ At(h, "create_room", "create")
  /\ IF RoomIdTaken(handlers[h].room)
     THEN /\ handlers' = [handlers EXCEPT ![h].pc = "done",
                                          ![h].failed = TRUE]
          /\ Emit(<<[E0 EXCEPT !.ev = "error", !.dest = ToSocket(Self(h)),
                               !.h = h, !.text = "Failed to create room"]>>)
          /\ UNCHANGED rooms
     ELSE /\ rooms' = [rooms EXCEPT ![handlers[h].room] =
                         NewRoom(handlers[h].name, Self(h))]
          /\ Goto(h, "findAll")
          /\ UNCHANGED log
  /\ UNCHANGED <<connected, subs, users, messages, typingUsers, now, faults>>

\* Room.find({}); the two broadcasts
CreateRoomFindAll(h) ==
  /\ At(h, "create_room", "findAll")
  /\ Emit(<<[E0 EXCEPT !.ev = "room_list", !.dest = ToAll, !.h = h,
                       !.set = AllRooms],
            [E0 EXCEPT !.ev = "notification", !.dest = ToAll, !.h = h,
                       !.room = handlers[h].room, !.text = "room_created"]>>)
  /\ Goto(h, "done")
  /\ UNCHANGED <<connected, subs, users, rooms, messages, typingUsers, now,
                 faults>>

CreateRoom(h) ==
  \/ CreateRoomFindRoom(h)
  \/ CreateRoomCreate(h)
  \/ CreateRoomFindAll(h)

\* ------------------------------------------------------------- send_message
\* user?.username || 'Anonymous'
SenderName(user) == IF user.exists THEN user.username ELSE Anonymous

\* messageData.room || 'general'; "" stands for a payload without room
TargetRoom(room) == IF room = "" THEN General ELSE room

StartSendMessage(c, text, room) ==
  /\ Invoke(c, [H0 EXCEPT !.kind = "send_message", !.pc = "findUser",
                          !.text = text, !.room = room])
  /\ UNCHANGED <<connected, subs, users, rooms, messages, typingUsers, log,
                 now, faults>>

\* User.findOne({socketId}); the payload, with timestamp: new Date()
SendMessageFindUser(h) ==
  /\ At(h, "send_message", "findUser")
  /\ handlers' = [handlers EXCEPT ![h].pc = "create",
                                  ![h].user = users[Self(h)],
                                  ![h].ts = now]
  /\ UNCHANGED <<connected, subs, users, rooms, messages, typingUsers, log,
                 now, faults>>

\* Message.create(messagePayload)
SendMessageCreate(h) ==
  /\ At(h, "send_message", "create")
  /\ messages' = Append(messages,
                   [NewMessage EXCEPT !.sender = SenderName(handlers[h].user),
                                      !.senderId = Self(h),
                                      !.message = handlers[h].text,
                                      !.room = TargetRoom(handlers[h].room),
                                      !.timestamp = handlers[h].ts])
  /\ handlers' = [handlers EXCEPT ![h].pc = "inc",
                                  ![h].mid = Len(messages) + 1]
  /\ UNCHANGED <<connected, subs, users, rooms, typingUsers, log, now,
                 faults>>

\* io.to(messageData.room).emit('receive_message', savedMessage)
RoomBroadcast(room) == ToLabel(room)

\* SendMessageInc with the increment negated
SendMessageDec(h) ==
  /\ At(h, "send_message", "inc")
  /\ LET r == TargetRoom(handlers[h].room) IN
       rooms' = IF r \in RoomIds /\ rooms[r].exists
                THEN [rooms EXCEPT ![r].messageCount = @ - 1]
                ELSE rooms
  /\ IF handlers[h].room # ""
     THEN /\ Emit(<<[E0 EXCEPT !.ev = "receive_message",
                               !.dest = RoomBroadcast(handlers[h].room),
                               !.h = h, !.room = handlers[h].room,
                               !.mid = handlers[h].mid,
                               !.members = Members(handlers[h].room)]>>)
          /\ Goto(h, "findRoomUsers")
     ELSE /\ Emit(<<[E0 EXCEPT !.ev = "receive_message", !.dest = ToAll,
                               !.h = h, !.room = General,
                               !.mid = handlers[h].mid,
                               !.members = Members(General)],
                    [E0 EXCEPT !.ev = "message_delivered",
                               !.dest = ToSocket(Self(h)), !.h = h,
                               !.mid = handlers[h].mid]>>)
          /\ Goto(h, "done")
  /\ UNCHANGED <<connected, subs, users, messages, typingUsers, now, faults>>

\* Room.findOneAndUpdate({roomId}, {$inc: {messageCount: 1}}); then the
\* broadcast: to the room if the payload names one, else to everyone
SendMessageInc(h) ==
  /\ At(h, "send_message", "inc")
  /\ LET r == TargetRoom(handlers[h].room) IN
       rooms' = IF r \in RoomIds /\ rooms[r].exists
                THEN [rooms EXCEPT ![r].messageCount = @ + 1]
                ELSE rooms
  /\ IF handlers[h].room # ""
     THEN /\ Emit(<<[E0 EXCEPT !.ev = "receive_message",
                               !.dest = RoomBroadcast(handlers[h].room),
                               !.h = h, !.room = handlers[h].room,
                               !.mid = handlers[h].mid,
                               !.members = Members(handlers[h].room)]>>)
          /\ Goto(h, "findRoomUsers")
     ELSE /\ Emit(<<[E0 EXCEPT !.ev = "receive_message", !.dest = ToAll,
                               !.h = h, !.room = General,
                               !.mid = handlers[h].mid,
                               !.members = Members(General)],
                    [E0 EXCEPT !.ev = "message_delivered",
                               !.dest = ToSocket(Self(h)), !.h = h,
                               !.mid = handlers[h].mid]>>)
          /\ Goto(h, "done")
  /\ UNCHANGED <<connected, subs, users, messages, typingUsers, now, faults>>

\* User.find({currentRoom: room, socketId: {$ne: socket.id}})
RoomUsers(room, c) ==
  {u \in Conn \ {c} : users[u].exists /\ users[u].currentRoom = room}

\* the notification to each of them, then the delivery confirmation
SendMessageFindRoomUsers(h) ==
  /\ At(h, "send_message", "findRoomUsers")
  /\ Emit(<<[E0 EXCEPT !.ev = "new_message_notification",
                       !.dest = UNION {ToLabel(u) :
                                  u \in RoomUsers(handlers[h].room, Self(h))},
                       !.set = RoomUsers(handlers[h].room, Self(h)),
                       !.h = h, !.room = handlers[h].room,
                       !.mid = handlers[h].mid],
            [E0 EXCEPT !.ev = "message_delivered",
                       !.dest = ToSocket(Self(h)), !.h = h,
                       !.mid = handlers[h].mid]>>)
  /\ Goto(h, "done")
  /\ UNCHANGED <<connected, subs, users, rooms, messages, typingUsers, now,
                 faults>>

SendMessage(h) ==
  \/ SendMessageFindUser(h)
  \/ SendMessageCreate(h)
  \/ SendMessageInc(h)
  \/ SendMessageFindRoomUsers(h)

\* ------------------------------------------------------------- share_file
StartShareFile(c, room) ==
  /\ Invoke(c, [H0 EXCEPT !.kind = "share_file", !.pc = "findUser",
                          !.room = room])
  /\ UNCHANGED <<connected, subs, users, rooms, messages, typingUsers, log,
                 now, faults>>

ShareFileFindUser(h) ==
  /\ At(h, "share_file", "findUser")
  /\ handlers' = [handlers EXCEPT ![h].pc = "create",
                                  ![h].user = users[Self(h)],
                                  ![h].ts = now]
  /\ UNCHANGED <<connected, subs, users, rooms, messages, typingUsers, log,
                 now, faults>>

\* io.emit('receive_message', savedMessage)
FileBroadcast(room) == ToAll

\* Message.create(messagePayload); the broadcast and the confirmation.
\* Object.keys(io.sockets.sockets) of a Map is empty: no notification.
ShareFileCreate(h) ==
  /\ At(h, "share_file", "create")
  /\ messages' = Append(messages,
                   [NewMessage EXCEPT !.sender = SenderName(handlers[h].user),
                                      !.senderId = Self(h),
                                      !.isFile = TRUE,
                                      !.room = TargetRoom(handlers[h].room),
                                      !.timestamp = handlers[h].ts])
  /\ Emit(<<[E0 EXCEPT !.ev = "receive_message",
                       !.dest = FileBroadcast(TargetRoom(handlers[h].room)),
                       !.h = h, !.room = TargetRoom(handlers[h].room),
                       !.mid = Len(messages) + 1,
                       !.members = Members(TargetRoom(handlers[h].room))],
            [E0 EXCEPT !.ev = "message_delivered",
                       !.dest = ToSocket(Self(h)), !.h = h,
                       !.mid = Len(messages) + 1]>>)
  /\ handlers' = [handlers EXCEPT ![h].pc = "done",
                                  ![h].mid = Len(messages) + 1]
  /\ UNCHANGED <<connected, subs, users, rooms, typingUsers, now, faults>>

ShareFile(h) ==
  \/ ShareFileFindUser(h)
  \/ ShareFileCreate(h)

\* ------------------------------------------------------------- disconnect
\* the transport closes the socket (it leaves every room) and the handler
\* is invoked
StartDisconnect(c) ==
  /\ Invoke(c, [H0 EXCEPT !.kind = "disconnect", !.pc = "markOffline",
                          !.ts = now, !.bound = users[c].exists,
                          !.flag = c \in DOMAIN typingUsers])
  /\ connected' = [connected EXCEPT ![c] = FALSE]
  /\ subs' = [subs EXCEPT ![c] = {}]
  /\ UNCHANGED <<users, rooms, messages, typingUsers, log, now, faults>>

\* delete typingUsers[socket.id]
ClearTyping(c) == Del(typingUsers, c)

\* User.findOneAndUpdate({socketId}, {isOnline: false, lastSeen}); with no
\* User document the if (user) block is skipped
DisconnectMarkOffline(h) ==
  /\ At(h, "disconnect", "markOffline")
  /\ IF users[Self(h)].exists
     THEN /\ users' = [users EXCEPT ![Self(h)].isOnline = FALSE,
                                    ![Self(h)].lastSeen = handlers[h].ts]
          /\ handlers' = [handlers EXCEPT ![h].pc = "unsetAll",
                                          ![h].user = users[Self(h)]]
          /\ UNCHANGED typingUsers
     ELSE /\ typingUsers' = ClearTyping(Self(h))
          /\ Goto(h, "findOnline")
          /\ UNCHANGED users
  /\ UNCHANGED <<connected, subs, rooms, messages, log, now, faults>>

\* what is held of connection c where the typing map is typ and the rooms
\* are rms
Held(c, typ, rms) ==
  (IF c \in DOMAIN typ THEN {"typing"} ELSE {})
    \cup (IF \E r \in RoomIds : c \in DOMAIN rms[r].users
          THEN {"membership"} ELSE {})

\* Room.updateMany({users.<id>: {$exists: true}}, {$unset: ...}); the
\* 'user_left' emits, with the typing map as it is before line 442;
\* delete typingUsers[socket.id]
DisconnectUnsetAll(h) ==
  /\ At(h, "disconnect", "unsetAll")
  /\ rooms' = [r \in RoomIds |->
                 [rooms[r] EXCEPT !.users = Del(@, Self(h))]]
  /\ Emit(<<[E0 EXCEPT !.ev = "user_left", !.dest = ToAll, !.h = h,
                       !.who = Self(h), !.text = handlers[h].user.username,
                       !.held = Held(Self(h), typingUsers, rooms')],
            [E0 EXCEPT !.ev = "notification", !.dest = ToAll, !.h = h,
                       !.text = "user_left",
                       !.held = Held(Self(h), typingUsers, rooms')]>>)
  /\ typingUsers' = ClearTyping(Self(h))
  /\ Goto(h, "findOnline")
  /\ UNCHANGED <<connected, subs, users, messages, now, faults>>

\* User.find({isOnline: true}); the 'user_list' and 'typing_users' emits
DisconnectFindOnline(h) ==
  /\ At(h, "disconnect", "findOnline")
  /\ Emit(<<[E0 EXCEPT !.ev = "user_list", !.dest = ToAll, !.h = h,
                       !.set = OnlineUsers,
                       !.held = Held(Self(h), typingUsers, rooms)],
            [E0 EXCEPT !.ev = "typing_users", !.dest = ToAll, !.h = h,
                       !.map = typingUsers,
                       !.held = Held(Self(h), typingUsers, rooms)]>>)
  /\ Goto(h, "done")
  /\ UNCHANGED <<connected, subs, users, rooms, messages, typingUsers, now,
                 faults>>

Disconnect(h) ==
  \/ DisconnectMarkOffline(h)
  \/ DisconnectUnsetAll(h)
  \/ DisconnectFindOnline(h)

\* ------------------------------------------------------------- typing
StartTyping(c, isTyping) ==
  /\ Invoke(c, [H0 EXCEPT !.kind = "typing", !.pc = "findUser",
                          !.flag = isTyping])
  /\ UNCHANGED <<connected, subs, users, rooms, messages, typingUsers, log,
                 now, faults>>

\* TypingFindUser broadcasting whether or not there is a user
TypingFindUserAlways(h) ==
  /\ At(h, "typing", "findUser")
  /\ typingUsers' = IF users[Self(h)].exists
                    THEN IF handlers[h].flag
                         THEN Put(typingUsers, Self(h),
                                  users[Self(h)].username)
                         ELSE Del(typingUsers, Self(h))
                    ELSE typingUsers
  /\ Emit(<<[E0 EXCEPT !.ev = "typing_users", !.dest = ToAll,
                       !.h = h, !.map = typingUsers']>>)
  /\ Goto(h, "done")
  /\ UNCHANGED <<connected, subs, users, rooms, messages, now, faults>>

\* User.findOne({socketId}); if (user) the typing map is written and the
\* list of its values is broadcast
TypingFindUser(h) ==
  /\ At(h, "typing", "findUser")
  /\ IF users[Self(h)].exists
     THEN /\ typingUsers' = IF handlers[h].flag
                            THEN Put(typingUsers, Self(h),
                                     users[Self(h)].username)
                            ELSE Del(typingUsers, Self(h))
          /\ Emit(<<[E0 EXCEPT !.ev = "typing_users", !.dest = ToAll,
                               !.h = h, !.map = typingUsers']>>)
     ELSE UNCHANGED <<typingUsers, log>>
  /\ Goto(h, "done")
  /\ UNCHANGED <<connected, subs, users, rooms, messages, now, faults>>

Typing(h) == TypingFindUser(h)

\* ------------------------------------------------------------- private_message
\* `to` is whatever the client passes: a socket id or any other label
StartPrivateMessage(c, to, text) ==
  /\ Invoke(c, [H0 EXCEPT !.kind = "private_message", !.pc = "findUser",
                          !.name = to, !.text = text])
  /\ UNCHANGED <<connected, subs, users, rooms, messages, typingUsers, log,
                 now, faults>>

\* User.findOne({socketId}); messageData, with timestamp: new Date()
PrivateMessageFindUser(h) ==
  /\ At(h, "private_message", "findUser")
  /\ handlers' = [handlers EXCEPT ![h].pc = "create",
                                  ![h].user = users[Self(h)],
                                  ![h].ts = now]
  /\ UNCHANGED <<connected, subs, users, rooms, messages, typingUsers, log,
                 now, faults>>

\* io.to(to).emit(...)
PrivateTarget(to) == ToLabel(to)

\* Message.create(messageData); the four emits
PrivateMessageCreate(h) ==
  /\ At(h, "private_message", "create")
  /\ messages' = Append(messages,
                   [NewMessage EXCEPT !.sender = SenderName(handlers[h].user),
                                      !.senderId = Self(h),
                                      !.message = handlers[h].text,
                                      !.recipient = handlers[h].name,
                                      !.isPrivate = TRUE,
                                      !.timestamp = handlers[h].ts])
  /\ Emit(<<[E0 EXCEPT !.ev = "private_message",
                       !.dest = PrivateTarget(handlers[h].name), !.h = h,
                       !.who = handlers[h].name, !.mid = Len(messages) + 1],
            [E0 EXCEPT !.ev = "private_message",
                       !.dest = ToSocket(Self(h)), !.h = h,
                       !.who = handlers[h].name, !.mid = Len(messages) + 1],
            [E0 EXCEPT !.ev = "new_message_notification",
                       !.dest = PrivateTarget(handlers[h].name), !.h = h,
                       !.who = handlers[h].name, !.mid = Len(messages) + 1],
            [E0 EXCEPT !.ev = "message_delivered",
                       !.dest = ToSocket(Self(h)), !.h = h,
                       !.mid = Len(messages) + 1]>>)
  /\ handlers' = [handlers EXCEPT ![h].pc = "done",
                                  ![h].mid = Len(messages) + 1]
  /\ UNCHANGED <<connected, subs, users, rooms, typingUsers, now, faults>>

PrivateMessage(h) ==
  \/ PrivateMessageFindUser(h)
  \/ PrivateMessageCreate(h)

\* ------------------------------------------------------------- add_reaction
\* an _id no message has
NoSuchId == 0

StartAddReaction(c, messageId, reaction) ==
  /\ Invoke(c, [H0 EXCEPT !.kind = "add_reaction", !.pc = "update",
                          !.mid = messageId, !.text = reaction])
  /\ UNCHANGED <<connected, subs, users, rooms, messages, typingUsers, log,
                 now, faults>>

\* SetReaction with the whole reactions map set, not the one key
SetReactionOnly(msgs, messageId, c, reaction) ==
  IF messageId \in DOMAIN msgs
  THEN [msgs EXCEPT ![messageId].reactions = Put(EmptyMap, c, reaction)]
  ELSE msgs

\* Message.findByIdAndUpdate(messageId, {$set: {reactions.<id>: reaction}}):
\* null, and no change, when no message has the _id
SetReaction(msgs, messageId, c, reaction) ==
  IF messageId \in DOMAIN msgs
  THEN [msgs EXCEPT ![messageId].reactions = Put(@, c, reaction)]
  ELSE msgs

\* io.emit('reaction_added', {messageId, reaction, userId: socket.id})
ReactionAdded(h) ==
  <<[E0 EXCEPT !.ev = "reaction_added", !.dest = ToAll, !.h = h,
               !.mid = handlers[h].mid, !.text = handlers[h].text,
               !.who = Self(h)]>>

\* AddReactionUpdate emitting only when the update found a message
AddReactionUpdateIfFound(h) ==
  /\ At(h, "add_reaction", "update")
  /\ messages' = SetReaction(messages, handlers[h].mid, Self(h),
                             handlers[h].text)
  /\ IF handlers[h].mid \in DOMAIN messages
     THEN Emit(ReactionAdded(h))
     ELSE UNCHANGED log
  /\ Goto(h, "done")
  /\ UNCHANGED <<connected, subs, users, rooms, typingUsers, now, faults>>

AddReactionUpdate(h) ==
  /\ At(h, "add_reaction", "update")
  /\ messages' = SetReaction(messages, handlers[h].mid, Self(h),
                             handlers[h].text)
  /\ Emit(ReactionAdded(h))
  /\ Goto(h, "done")
  /\ UNCHANGED <<connected, subs, users, rooms, typingUsers, now, faults>>

AddReaction(h) == AddReactionUpdate(h)

\* ------------------------------------------------------------- message_read
StartMessageRead(c, messageId) ==
  /\ Invoke(c, [H0 EXCEPT !.kind = "message_read", !.pc = "update",
                          !.mid = messageId])
  /\ UNCHANGED <<connected, subs, users, rooms, messages, typingUsers, log,
                 now, faults>>

\* MessageReadUpdate with the flag flipped, not set
MessageReadToggle(h) ==
  /\ At(h, "message_read", "update")
  /\ messages' = IF handlers[h].mid \in DOMAIN messages
                 THEN [messages EXCEPT ![handlers[h].mid].read = ~@]
                 ELSE messages
  /\ Emit(<<[E0 EXCEPT !.ev = "message_read_receipt",
                       !.dest = ToOthers(Self(h)), !.h = h,
                       !.mid = handlers[h].mid, !.who = Self(h)]>>)
  /\ Goto(h, "done")
  /\ UNCHANGED <<connected, subs, users, rooms, typingUsers, now, faults>>

\* Message.findByIdAndUpdate(messageId, {read: true});
\* socket.broadcast.emit('message_read_receipt', ...)
MessageReadUpdate(h) ==
  /\ At(h, "message_read", "update")
  /\ messages' = IF handlers[h].mid \in DOMAIN messages
                 THEN [messages EXCEPT ![handlers[h].mid].read = TRUE]
                 ELSE messages
  /\ Emit(<<[E0 EXCEPT !.ev = "message_read_receipt",
                       !.dest = ToOthers(Self(h)), !.h = h,
                       !.mid = handlers[h].mid, !.who = Self(h)]>>)
  /\ Goto(h, "done")
  /\ UNCHANGED <<connected, subs, users, rooms, typingUsers, now, faults>>

MessageRead(h) == MessageReadUpdate(h)

\* ------------------------------------------------------------- paging
Min(a, b) == IF a < b THEN a ELSE b
Max(a, b) == IF a > b THEN a ELSE b

RECURSIVE Reverse(_)
Reverse(q) == IF q = <<>> THEN <<>> ELSE Append(Reverse(Tail(q)), Head(q))

\* Message.find(query): the _ids of the messages of `room`; every message
\* when the handler's roomId is falsy ("")
Matching(room) ==
  {i \in DOMAIN messages : room = "" \/ messages[i].room = room}

\* .sort({timestamp: -1}): the orders of ids that are descending by
\* timestamp; the store fixes no order among equal timestamps
SortedDesc(ids) ==
  {ord \in [1..Cardinality(ids) -> ids] :
     /\ \A i, j \in DOMAIN ord : i # j => ord[i] # ord[j]
     /\ \A i, j \in DOMAIN ord :
          i < j => messages[ord[i]].timestamp >= messages[ord[j]].timestamp}

\* .skip(skip).limit(take): a limit of 0 is no limit
Window(ord, skip, take) ==
  SubSeq(ord, skip + 1,
         IF take = 0 THEN Len(ord) ELSE Min(Len(ord), skip + take))

\* hasMore: offset + limit < totalCount
HasMoreLE(skip, take, total) == skip + take <= total
HasMore(skip, take, total) == skip + take < total

DefaultLimit == 50

\* { offset = 0, limit = 50, roomId = 'general' }: a key the payload lacks
\* takes its default
Field(payload, key, default) ==
  IF key \in DOMAIN payload THEN payload[key] ELSE default

StartLoadMessages(c, payload) ==
  /\ Invoke(c, [H0 EXCEPT !.kind = "load_messages", !.pc = "find",
                          !.off = Field(payload, "offset", 0),
                          !.lim = Field(payload, "limit", DefaultLimit),
                          !.room = Field(payload, "roomId", General)])
  /\ UNCHANGED <<connected, subs, users, rooms, messages, typingUsers, log,
                 now, faults>>

Abs(n) == IF n < 0 THEN 0 - n ELSE n

\* what the catch block of a page request of this kind sends
PageCatch(h, kind) ==
  IF kind = "load_messages"
  THEN <<[E0 EXCEPT !.ev = "error", !.dest = ToSocket(Self(h)), !.h = h]>>
  ELSE <<[E0 EXCEPT !.ev = "http_500", !.h = h]>>

\* Message.find(query).sort({timestamp: -1}).skip(offset).limit(limit):
\* the store rejects a negative skip, takes a negative limit for its
\* absolute value, and either rejects a NaN or reads as if it were not
\* given
PageFind(h, kind) ==
  /\ At(h, kind, "find")
  /\ \/ /\ handlers[h].off >= 0
        /\ \E ord \in SortedDesc(Matching(handlers[h].room)) :
             handlers' = [handlers EXCEPT
                            ![h].pc = "count",
                            ![h].res = Window(ord, handlers[h].off,
                                              Abs(handlers[h].lim)),
                            ![h].len0 = Len(messages)]
        /\ UNCHANGED log
     \/ /\ handlers[h].off < 0 \/ handlers[h].nan # {}
        /\ handlers' = [handlers EXCEPT ![h].pc = "done",
                                        ![h].failed = TRUE]
        /\ Emit(PageCatch(h, kind))
  /\ UNCHANGED <<connected, subs, users, rooms, messages, typingUsers, now,
                 faults>>

LoadMessagesFind(h) == PageFind(h, "load_messages")

\* Message.countDocuments(query); messages.reverse() and hasMore are sent
\* to the socket
LoadMessagesCount(h) ==
  /\ At(h, "load_messages", "count")
  /\ LET total == Cardinality(Matching(handlers[h].room)) IN
       Emit(<<[E0 EXCEPT !.ev = "messages_loaded",
                         !.dest = ToSocket(Self(h)), !.h = h,
                         !.seq = Reverse(handlers[h].res),
                         !.more = HasMore(handlers[h].off, handlers[h].lim,
                                          total),
                         !.mid = total]>>)
  /\ Goto(h, "done")
  /\ UNCHANGED <<connected, subs, users, rooms, messages, typingUsers, now,
                 faults>>

LoadMessages(h) ==
  \/ LoadMessagesFind(h)
  \/ LoadMessagesCount(h)

\* ------------------------------------------------------------- GET /api/messages
Digits == <<"0", "1", "2", "3", "4", "5", "6", "7", "8", "9">>
IsDigit(ch) == \E i \in DOMAIN Digits : Digits[i] = ch
DigitValue(ch) == (CHOOSE i \in DOMAIN Digits : Digits[i] = ch) - 1

\* the digits s starts with, read as a decimal number after acc
RECURSIVE ReadDigits(_, _)
ReadDigits(s, acc) ==
  IF s = <<>> \/ ~IsDigit(Head(s)) THEN acc
  ELSE ReadDigits(Tail(s), 10 * acc + DigitValue(Head(s)))

RECURSIVE SkipWhitespace(_)
SkipWhitespace(s) ==
  IF s # <<>> /\ Head(s) \in Whitespace THEN SkipWhitespace(Tail(s)) ELSE s

\* parseInt(s): leading whitespace, an optional sign, then digits up to the
\* first other character; NaN when there is no digit
ParseInt(s) ==
  LET t == SkipWhitespace(s)
      signed == t # <<>> /\ Head(t) \in {"-", "+"}
      d == IF signed THEN Tail(t) ELSE t
  IN IF d = <<>> \/ ~IsDigit(Head(d)) THEN [nan |-> TRUE, n |-> 0]
     ELSE [nan |-> FALSE,
           n |-> IF signed /\ Head(t) = "-" THEN 0 - ReadDigits(d, 0)
                 ELSE ReadDigits(d, 0)]

\* what handlers not bound to a socket (HTTP requests) carry as connection
Http == "http"

\* an HTTP request arrives and its route handler is invoked
InvokeHttp(rec) ==
  /\ Len(handlers) < MaxHandlers
  /\ Cardinality({h \in DOMAIN handlers : InFlight(h)}) < MaxInFlight
  /\ handlers' = Append(handlers, [rec EXCEPT !.conn = Http])

\* const { offset = 0, limit = 50, room = 'general' } = req.query;
\* parseInt(offset), parseInt(limit); the query's values are strings
StartGetMessages(query) ==
  /\ LET skip == IF "offset" \in DOMAIN query THEN ParseInt(query.offset)
                 ELSE [nan |-> FALSE, n |-> 0]
         take == IF "limit" \in DOMAIN query THEN ParseInt(query.limit)
                 ELSE [nan |-> FALSE, n |-> DefaultLimit]
     IN InvokeHttp([H0 EXCEPT !.kind = "get_messages", !.pc = "find",
                              !.off = skip.n, !.lim = take.n,
                              !.nan = (IF skip.nan THEN {"offset"} ELSE {})
                                        \cup (IF take.nan THEN {"limit"}
                                              ELSE {}),
                              !.room = Field(query, "room", General)])
  /\ UNCHANGED <<connected, subs, users, rooms, messages, typingUsers, log,
                 now, faults>>

GetMessagesFind(h) == PageFind(h, "get_messages")

\* Message.countDocuments({room}); res.json({messages, hasMore, total});
\* NaN < totalCount is false
GetMessagesCount(h) ==
  /\ At(h, "get_messages", "count")
  /\ LET total == Cardinality(Matching(handlers[h].room)) IN
       Emit(<<[E0 EXCEPT !.ev = "messages_json", !.h = h,
                         !.seq = Reverse(handlers[h].res),
                         !.more = /\ handlers[h].nan = {}
                                  /\ HasMore(handlers[h].off, handlers[h].lim,
                                             total),
                         !.mid = total]>>)
  /\ Goto(h, "done")
  /\ UNCHANGED <<connected, subs, users, rooms, messages, typingUsers, now,
                 faults>>

GetMessages(h) ==
  \/ GetMessagesFind(h)
  \/ GetMessagesCount(h)

\* ------------------------------------------------------------- search_messages
\* the characters of the strings messages and users carry
Chars(str) ==
  CASE str = "ann" -> <<"a", "n", "n">>
    [] str = "bob" -> <<"b", "o", "b">>
    [] str = "hi" -> <<"h", "i">>
    [] str = "Ann" -> <<"A", "n", "n">>
    [] str = Anonymous -> <<"A", "n", "o", "n", "y", "m", "o", "u", "s">>
    [] OTHER -> <<>>

\* the regular expression's "any character"
AnyChar == "."

\* {$regex: query, $options: 'i'} for a query of letters and dots: the
\* pattern is not anchored, a letter matches itself in either case and a
\* dot matches any character
RegexMatches(query, text) ==
  \E i \in 1..(Len(text) - Len(query) + 1) :
    \A k \in 1..Len(query) :
      \/ query[k] = AnyChar
      \/ ToLowerChar(text[i + k - 1]) = ToLowerChar(query[k])

\* the $or of message and sender, and room when roomId is truthy
SearchFilter(query, roomId) ==
  {i \in DOMAIN messages :
     /\ \/ RegexMatches(query, Chars(messages[i].message))
        \/ RegexMatches(query, Chars(messages[i].sender))
     /\ roomId = "" \/ messages[i].room = roomId}

SearchLimit == 50

StartSearchMessages(c, query, roomId) ==
  /\ Invoke(c, [H0 EXCEPT !.kind = "search_messages", !.pc = "find",
                          !.res = query, !.room = roomId])
  /\ UNCHANGED <<connected, subs, users, rooms, messages, typingUsers, log,
                 now, faults>>

\* Message.find(searchFilter).sort({timestamp: -1}).limit(50);
\* socket.emit('search_results', ...)
SearchMessagesFind(h) ==
  /\ At(h, "search_messages", "find")
  /\ \E ord \in SortedDesc(SearchFilter(handlers[h].res, handlers[h].room)) :
       Emit(<<[E0 EXCEPT !.ev = "search_results",
                         !.dest = ToSocket(Self(h)), !.h = h,
                         !.seq = Window(ord, 0, SearchLimit)]>>)
  /\ Goto(h, "done")
  /\ UNCHANGED <<connected, subs, users, rooms, messages, typingUsers, now,
                 faults>>

SearchMessages(h) == SearchMessagesFind(h)

\* ------------------------------------------------------------- GET /api/search
\* const { q, room } = req.query; if (!q) return res.status(400)...
StartGetSearch(query) ==
  /\ IF Field(query, "q", <<>>) = <<>>
     THEN /\ InvokeHttp([H0 EXCEPT !.kind = "get_search", !.pc = "done",
                                   !.room = Field(query, "room", "")])
          /\ Emit(<<[E0 EXCEPT !.ev = "http_400", !.h = Len(handlers) + 1]>>)
     ELSE /\ InvokeHttp([H0 EXCEPT !.kind = "get_search", !.pc = "find",
                                   !.res = query.q,
                                   !.room = Field(query, "room", "")])
          /\ UNCHANGED log
  /\ UNCHANGED <<connected, subs, users, rooms, messages, typingUsers, now,
                 faults>>

\* Message.find(searchFilter).sort({timestamp: -1}).limit(50);
\* res.json({messages, query})
GetSearchFind(h) ==
  /\ At(h, "get_search", "find")
  /\ \E ord \in SortedDesc(SearchFilter(handlers[h].res, handlers[h].room)) :
       Emit(<<[E0 EXCEPT !.ev = "search_json", !.h = h,
                         !.seq = Window(ord, 0, SearchLimit)]>>)
  /\ Goto(h, "done")
  /\ UNCHANGED <<connected, subs, users, rooms, messages, typingUsers, now,
                 faults>>

GetSearch(h) == GetSearchFind(h)

\* ------------------------------------------------------------- store failure
\* the handlers whose catch block emits 'error' to the socket; the catch
\* blocks of typing, add_reaction, message_read and disconnect only log
CatchEmitsError ==
  {"user_join", "send_message", "create_room", "join_room",
   "private_message", "share_file", "load_messages", "search_messages"}

\* the route handlers, whose catch block answers res.status(500)
CatchAnswers500 == {"get_messages", "get_search"}

\* the store operation handler h awaits rejects: the rest of the try block
\* is skipped and the catch block runs
StoreFails(h) ==
  /\ h \in DOMAIN handlers
  /\ InFlight(h)
  /\ faults < MaxFaults
  /\ faults' = faults + 1
  /\ handlers' = [handlers EXCEPT ![h].pc = "done", ![h].failed = TRUE]
  /\ IF handlers[h].kind \in CatchEmitsError
     THEN Emit(<<[E0 EXCEPT !.ev = "error", !.dest = ToSocket(Self(h)),
                            !.h = h]>>)
     ELSE IF handlers[h].kind \in CatchAnswers500
     THEN Emit(<<[E0 EXCEPT !.ev = "http_500", !.h = h]>>)
     ELSE UNCHANGED log
  /\ UNCHANGED <<connected, subs, users, rooms, messages, typingUsers, now>>

\* ------------------------------------------------------------- rooms
\* the username each connection joins with
NameOf == [c \in Conn |-> IF c = "c1" THEN "ann" ELSE "bob"]
DevName == <<"D", "e", "v">>

\* Room membership: user_join, join_room, create_room and disconnect on
\* every connection, with store failures.
NextJoin ==
  \/ \E c \in Conn :
       \/ StartUserJoin(c, NameOf[c])
       \/ \E r \in Targets : StartJoinRoom(c, r)
       \/ StartCreateRoom(c, DevName)
       \/ StartDisconnect(c)
  \/ \E h \in DOMAIN handlers :
       \/ UserJoin(h)
       \/ JoinRoom(h)
       \/ CreateRoom(h)
       \/ Disconnect(h)
       \/ StoreFails(h)

InitJoin == \E bound \in SUBSET Conn : InitBound(bound, {}, NameOf)

SpecJoin == InitJoin /\ [][NextJoin]_vars

\* ------------------------------------------------------------- broadcasts
\* Room broadcasts: send_message and share_file with and without a room,
\* while memberships change.
NextCast ==
  \/ \E c \in Conn :
       \/ StartUserJoin(c, NameOf[c])
       \/ \E r \in Targets : StartJoinRoom(c, r)
       \/ StartCreateRoom(c, DevName)
       \/ StartDisconnect(c)
       \/ \E r \in Targets \cup {""} : StartSendMessage(c, "hi", r)
       \/ \E r \in Targets \cup {""} : StartShareFile(c, r)
  \/ \E h \in DOMAIN handlers :
       \/ UserJoin(h)
       \/ JoinRoom(h)
       \/ CreateRoom(h)
       \/ Disconnect(h)
       \/ SendMessage(h)
       \/ ShareFile(h)
       \/ StoreFails(h)

SpecCast == InitJoin /\ [][NextCast]_vars

\* ------------------------------------------------------------- create_room
\* Concurrent create_room calls under every room name.
NextCreate ==
  \/ \E c \in Conn, n \in RoomNames : StartCreateRoom(c, n)
  \/ \E h \in DOMAIN handlers :
       \/ CreateRoom(h)
       \/ StoreFails(h)

SpecCreate == InitJoin /\ [][NextCreate]_vars

\* ------------------------------------------------------------- pages
\* a message send_message of an unbound connection has stored
Stored(room, ts) ==
  [NewMessage EXCEPT !.sender = Anonymous, !.senderId = "c1",
                     !.message = "hi", !.room = room, !.timestamp = ts]

\* The store after send_message handlers of unbound connections have
\* completed: up to MaxMsgs messages, in any insertion order of their
\* timestamps, each counted in its room.
InitPage ==
  /\ connected = [c \in Conn |-> TRUE]
  /\ subs = [c \in Conn |-> {c}]
  /\ users = [c \in Conn |-> NoUser]
  /\ \E n \in 0..MaxMsgs :
       messages \in [1..n -> {Stored(r, t) : r \in {General, Random},
                                            t \in 0..(MaxTime - 1)}]
  /\ rooms = [r \in RoomIds |->
                IF r \in {General, Random}
                THEN [NewRoom(IF r = General THEN "General" ELSE "Random",
                              "system")
                        EXCEPT !.messageCount =
                          Cardinality({i \in DOMAIN messages :
                                         messages[i].room = r})]
                ELSE NoRoom]
  /\ typingUsers = EmptyMap
  /\ handlers = <<>>
  /\ log = <<>>
  /\ now = MaxTime
  /\ faults = 0

LoadPayloads ==
  {[offset |-> o, limit |-> l, roomId |-> r] :
     o \in 0..MaxSkip, l \in 0..MaxTake, r \in {Random}}
  \cup {[roomId |-> ""], EmptyMap}

\* decimal spellings, one with a leading zero and one with a sign
Numerals == <<<<"0">>, <<"1">>, <<"0", "2">>, <<"+", "3">>, <<"4">>>>

GetQueries ==
  {[offset |-> Numerals[o + 1], limit |-> Numerals[l + 1], room |-> r] :
     o \in 0..MaxSkip, l \in 1..MaxTake, r \in {Random}}
  \cup {EmptyMap}

\* Page requests of connection c1 and of HTTP clients, while c2 sends.
PageRequests ==
  {h \in DOMAIN handlers :
     handlers[h].kind \in {"load_messages", "get_messages"}}

NextPage ==
  \/ /\ Cardinality(PageRequests) < MaxPages
     /\ \/ \E p \in LoadPayloads : StartLoadMessages("c1", p)
        \/ \E q \in GetQueries : StartGetMessages(q)
  \/ \E r \in {Random, ""} : StartSendMessage("c2", "hi", r)
  \/ \E h \in DOMAIN handlers :
       \/ LoadMessages(h)
       \/ GetMessages(h)
       \/ SendMessage(h)

SpecPage == InitPage /\ [][NextPage]_vars

\* the inputs of the menus below
Hi == "hi"
ThumbsUp == "up"
AnnQuery == <<"A", "N">>

\* ------------------------------------------------------------- page edges
\* offsets and limits that are negative, and in a query string also not
\* numbers, beside ones that are neither
EdgePayloads ==
  {[offset |-> o, limit |-> l, roomId |-> Random] :
     o \in {-1, 0, 1}, l \in {-2, 1}}

EdgeNumerals == {<<"-", "1">>, <<"x">>, <<"1">>}

EdgeQueries ==
  {[offset |-> o, limit |-> l, room |-> Random] :
     o \in EdgeNumerals, l \in EdgeNumerals}

NextEdge ==
  \/ \E p \in EdgePayloads : StartLoadMessages("c1", p)
  \/ \E q \in EdgeQueries : StartGetMessages(q)
  \/ \E h \in DOMAIN handlers :
       \/ LoadMessages(h)
       \/ GetMessages(h)

SpecEdge == InitPage /\ [][NextEdge]_vars

\* ------------------------------------------------------------- search
\* most messages in the store that is searched
MaxFound == 2

\* a stored message of a bound sender
Posted(sender, text, room, ts) ==
  [NewMessage EXCEPT !.sender = sender, !.senderId = "c1", !.message = text,
                     !.room = room, !.timestamp = ts]

\* The store after send_message handlers have completed: up to MaxFound
\* messages of two senders, two texts, two rooms and two instants, in any
\* insertion order.
InitSearch ==
  /\ connected = [c \in Conn |-> TRUE]
  /\ subs = [c \in Conn |-> {c}]
  /\ users = [c \in Conn |-> NoUser]
  /\ \E n \in 0..MaxFound :
       messages \in [1..n -> {Posted(u, t, r, ts) :
                                u \in {"ann", "bob"}, t \in {"hi", "Ann"},
                                r \in {General, Random},
                                ts \in 0..(MaxTime - 1)}]
  /\ rooms = [r \in RoomIds |->
                IF r \in {General, Random}
                THEN [NewRoom(IF r = General THEN "General" ELSE "Random",
                              "system")
                        EXCEPT !.messageCount =
                          Cardinality({i \in DOMAIN messages :
                                         messages[i].room = r})]
                ELSE NoRoom]
  /\ typingUsers = EmptyMap
  /\ handlers = <<>>
  /\ log = <<>>
  /\ now = MaxTime
  /\ faults = 0

\* letters in the other case, a pattern character, and nothing
Queries == {AnnQuery, <<"H">>, <<AnyChar>>, <<>>}

\* Searches of connection c1 and of HTTP clients, with store failures.
NextSearch ==
  \/ \E q \in Queries : \E r \in {"", Random} :
       \/ StartSearchMessages("c1", q, r)
       \/ StartGetSearch([q |-> q, room |-> r])
  \/ \E h \in DOMAIN handlers :
       \/ SearchMessages(h)
       \/ GetSearch(h)
       \/ StoreFails(h)

SpecSearch == InitSearch /\ [][NextSearch]_vars

\* ------------------------------------------------------------- counting
\* Everything that stores a message: send_message and share_file, with a
\* room and without, and private_message, with store failures.
NextCount ==
  \/ \E c \in Conn :
       \/ \E r \in {Random, ""} : StartSendMessage(c, Hi, r)
       \/ \E r \in {Random, ""} : StartShareFile(c, r)
       \/ \E to \in Conn \ {c} : StartPrivateMessage(c, to, Hi)
  \/ \E h \in DOMAIN handlers :
       \/ SendMessage(h)
       \/ ShareFile(h)
       \/ PrivateMessage(h)
       \/ StoreFails(h)

SpecCount == InitJoin /\ [][NextCount]_vars

\* ------------------------------------------------------------- marks
\* most messages in the store that is reacted to
MaxMarked == 2

Heart == "heart"
Tokens == {ThumbsUp, Heart}

\* a stored message with reactions and a read flag
Marked(reactions, read) ==
  [Posted("ann", Hi, General, 0) EXCEPT !.reactions = reactions,
                                        !.read = read]

\* the maps from some connections to tokens
ReactionMaps ==
  UNION {[S -> Tokens] : S \in SUBSET Conn}

\* The store after both connections have joined and sent, reacted to and
\* read up to MaxMarked messages.
InitMark ==
  /\ connected = [c \in Conn |-> TRUE]
  /\ subs = [c \in Conn |-> {c, General}]
  /\ users = [c \in Conn |-> JoinedUser(c, NameOf[c], 0)]
  /\ \E n \in 1..MaxMarked :
       messages \in [1..n -> {Marked(r, b) : r \in ReactionMaps,
                                             b \in BOOLEAN}]
  /\ rooms = [r \in RoomIds |->
                IF r = General
                THEN [NewRoom("General", "system") EXCEPT
                        !.users = [c \in Conn |-> NameOf[c]],
                        !.messageCount = Len(messages)]
                ELSE IF r = Random THEN NewRoom("Random", "system")
                ELSE NoRoom]
  /\ typingUsers = EmptyMap
  /\ handlers = <<>>
  /\ log = <<>>
  /\ now = 1
  /\ faults = 0

\* Reactions and read marks on stored messages, while messages are sent,
\* with store failures.
NextMark ==
  \/ \E c \in Conn :
       \/ \E id \in 1..MaxMarked : \E t \in Tokens :
            StartAddReaction(c, id, t)
       \/ \E id \in 1..MaxMarked : StartMessageRead(c, id)
       \/ StartSendMessage(c, Hi, "")
  \/ \E h \in DOMAIN handlers :
       \/ AddReaction(h)
       \/ MessageRead(h)
       \/ SendMessage(h)
       \/ StoreFails(h)

SpecMark == InitMark /\ [][NextMark]_vars

\* ------------------------------------------------------------- typing
\* Typing and disconnect (and a repeated user_join) on connections that
\* may be bound and may be in the typing map, with store failures.
InitTyping ==
  \E bound \in SUBSET Conn : \E typers \in SUBSET bound :
    InitBound(bound, typers, NameOf)

NextTyping ==
  \/ \E c \in Conn :
       \/ \E b \in BOOLEAN : StartTyping(c, b)
       \/ StartDisconnect(c)
       \/ StartUserJoin(c, NameOf[c])
  \/ \E h \in DOMAIN handlers :
       \/ Typing(h)
       \/ Disconnect(h)
       \/ UserJoin(h)
       \/ StoreFails(h)
  \/ Tick

SpecTyping == InitTyping /\ [][NextTyping]_vars

\* ------------------------------------------------------------- failures
\* Every socket handler, one input each, with store failures.
NextFail ==
  \/ \E c \in Conn :
       \/ StartUserJoin(c, NameOf[c])
       \/ StartSendMessage(c, Hi, "")
       \/ StartCreateRoom(c, DevName)
       \/ StartJoinRoom(c, Random)
       \/ StartTyping(c, TRUE)
       \/ \E to \in Conn \ {c} : StartPrivateMessage(c, to, Hi)
       \/ StartAddReaction(c, NoSuchId, ThumbsUp)
       \/ StartMessageRead(c, NoSuchId)
       \/ StartShareFile(c, "")
       \/ StartLoadMessages(c, [room |-> General])
       \/ StartSearchMessages(c, AnnQuery, "")
       \/ StartDisconnect(c)
  \/ \E h \in DOMAIN handlers :
       \/ UserJoin(h)
       \/ SendMessage(h)
       \/ CreateRoom(h)
       \/ JoinRoom(h)
       \/ Typing(h)
       \/ PrivateMessage(h)
       \/ AddReaction(h)
       \/ MessageRead(h)
       \/ ShareFile(h)
       \/ LoadMessages(h)
       \/ SearchMessages(h)
       \/ Disconnect(h)
       \/ StoreFails(h)

SpecFail == InitJoin /\ [][NextFail]_vars

\* ------------------------------------------------------------- reactions
\* Reactions and read marks on messages that exist or not, among
\* connections that come and go, with store failures.
MessageIds == {NoSuchId, 1}

NextReact ==
  \/ \E c \in Conn :
       \/ StartSendMessage(c, Hi, "")
       \/ \E id \in MessageIds : StartAddReaction(c, id, ThumbsUp)
       \/ \E id \in MessageIds : StartMessageRead(c, id)
       \/ StartDisconnect(c)
  \/ \E h \in DOMAIN handlers :
       \/ SendMessage(h)
       \/ AddReaction(h)
       \/ MessageRead(h)
       \/ Disconnect(h)
       \/ StoreFails(h)

SpecReact == InitJoin /\ [][NextReact]_vars

\* ------------------------------------------------------------- private
\* Private messages addressed to a socket id or to a room id, among
\* connections that change rooms and drop, with store failures.
NextPrivate ==
  \/ \E c \in Conn :
       \/ \E to \in (Conn \ {c}) \cup {General, Random} :
            StartPrivateMessage(c, to, Hi)
       \/ StartJoinRoom(c, Random)
       \/ StartDisconnect(c)
  \/ \E h \in DOMAIN handlers :
       \/ PrivateMessage(h)
       \/ JoinRoom(h)
       \/ Disconnect(h)
       \/ StoreFails(h)

SpecPrivate == InitJoin /\ [][NextPrivate]_vars

\* ------------------------------------------------------------- private pages
\* Pages are requested, over the socket and over HTTP, while private
\* messages are stored.
PeekPayloads == {EmptyMap, [roomId |-> ""], [roomId |-> Random]}
PeekQueries == {EmptyMap, [room |-> Random]}

NextPeek ==
  \/ \E c \in Conn :
       \/ \E to \in Conn \ {c} : StartPrivateMessage(c, to, Hi)
       \/ \E p \in PeekPayloads : StartLoadMessages(c, p)
  \/ \E q \in PeekQueries : StartGetMessages(q)
  \/ \E h \in DOMAIN handlers :
       \/ PrivateMessage(h)
       \/ LoadMessages(h)
       \/ GetMessages(h)
       \/ StoreFails(h)

SpecPeek == InitJoin /\ [][NextPeek]_vars

\* ------------------------------------------------------------- delivery
\* send_message handlers, each running on to its end unless a store
\* operation it awaits rejects: a pending promise is settled and its
\* continuation is run.
NextDeliver ==
  \/ \E c \in Conn : \E r \in {Random, ""} : StartSendMessage(c, Hi, r)
  \/ \E h \in DOMAIN handlers :
       \/ SendMessage(h)
       \/ StoreFails(h)

SpecDeliver ==
  /\ InitJoin
  /\ [][NextDeliver]_vars
  /\ \A h \in 1..MaxHandlers : WF_vars(SendMessage(h))

\* ------------------------------------------------------------- order
\* send_message handlers of both connections to one room, while the clock
\* advances.
NextOrder ==
  \/ \E c \in Conn : StartSendMessage(c, Hi, Random)
  \/ \E h \in DOMAIN handlers :
       \/ SendMessage(h)
       \/ StoreFails(h)
  \/ Tick

SpecOrder == InitJoin /\ [][NextOrder]_vars

\* ------------------------------------------------------------- room of record
\* user_join, join_room to rooms that exist and to one that may not, and
\* create_room, on connections that stay connected, with no store failure.
NextRecord ==
  \/ \E c \in Conn :
       \/ StartUserJoin(c, NameOf[c])
       \/ \E r \in Targets : StartJoinRoom(c, r)
       \/ StartCreateRoom(c, DevName)
  \/ \E h \in DOMAIN handlers :
       \/ UserJoin(h)
       \/ JoinRoom(h)
       \/ CreateRoom(h)

SpecRecord == InitJoin /\ [][NextRecord]_vars

\* ------------------------------------------------------------- claims
\* handler h has run to its end without a rejected store operation
Completed(h, kind) ==
  /\ handlers[h].kind = kind
  /\ handlers[h].pc = "done"
  /\ ~handlers[h].failed

\* no handler of h's connection was invoked after h
Latest(h) ==
  \A k \in DOMAIN handlers : k > h => handlers[k].conn # Self(h)

\* h ran with no other handler of its connection in flight, and the state
\* is the one it left for its connection
Undisturbed(h) == handlers[h].solo /\ Latest(h)

Emitted(h, ev) == {i \in DOMAIN log : log[i].h = h /\ log[i].ev = ev}

\* a join_room(B) of a bound member of some room, B existing when called
JoinedExisting(h) ==
  /\ Completed(h, "join_room")
  /\ Undisturbed(h)
  /\ handlers[h].bound
  /\ handlers[h].wasIn # {}
  /\ handlers[h].existed

JoinOutcome(h) ==
  /\ MemberOf(Self(h)) = {handlers[h].room}
  /\ rooms[handlers[h].room].users[Self(h)] = users[Self(h)].username
  /\ \E i \in Emitted(h, "room_joined") :
       /\ log[i].dest = {Self(h)}
       /\ log[i].room = handlers[h].room

\* C1: after a join_room(B) of connection c, bound in a room A, to an
\* existing room B has completed without store failure and with no other
\* handler of c in flight, c is in B's member map under its username, in
\* no other room's member map, and c has received room_joined for B.
C1_JoinMovesMember ==
  \A h \in DOMAIN handlers : JoinedExisting(h) => JoinOutcome(h)

\* C1 witness: such a join from a room A to a different room B has happened
C1_Witness ==
  \E h \in DOMAIN handlers :
    /\ JoinedExisting(h)
    /\ JoinOutcome(h)
    /\ handlers[h].room \notin handlers[h].wasIn

\* a join_room(B) that found no room B
JoinedMissing(h) ==
  /\ Completed(h, "join_room")
  /\ Undisturbed(h)
  /\ ~rooms[handlers[h].room].exists

\* C2 (as claimed): join_room(B) for a B that names no existing room leaves
\* c in the member maps it was in and emits neither room_joined nor error
\* to c.
C2_MissingRoomKeepsMembership ==
  \A h \in DOMAIN handlers :
    JoinedMissing(h) =>
      /\ MemberOf(Self(h)) = handlers[h].wasIn
      /\ Emitted(h, "room_joined") = {}
      /\ Emitted(h, "error") = {}

\* C3 (as claimed): the receive_message broadcast of a message posted to
\* room R by send_message or share_file is delivered only to connections
\* that R's member map contains.
C3_RoomBroadcastOnlyToMembers ==
  \A i \in DOMAIN log :
    (log[i].ev = "receive_message" /\ handlers[log[i].h].room # "")
      => log[i].dest \subseteq log[i].members

\* C4 (as claimed): of two completed create_room calls whose names derive
\* the same roomId, with no store failure, the room exists once and the
\* second call emits no error to its caller.
C4_CreateTwiceNoError ==
  \A h1, h2 \in DOMAIN handlers :
    ( /\ h1 < h2
      /\ handlers[h1].kind = "create_room" /\ handlers[h1].pc = "done"
      /\ handlers[h2].kind = "create_room" /\ handlers[h2].pc = "done"
      /\ handlers[h1].room = handlers[h2].room
      /\ faults = 0 )
    => /\ rooms[handlers[h2].room].exists
       /\ Emitted(h2, "error") = {}

\* the reply of a page request (load_messages or GET /api/messages)
PageReply(i) == log[i].ev \in {"messages_loaded", "messages_json"}

\* the messages of the requested room when the page was read
RoomAt(h) ==
  {i \in 1..handlers[h].len0 : messages[i].room = handlers[h].room}

\* the timestamp ranked k-th by descending timestamp among ids
StampAtRank(ids, k) ==
  CHOOSE t \in {messages[i].timestamp : i \in ids} :
    /\ Cardinality({i \in ids : messages[i].timestamp > t}) < k
    /\ Cardinality({i \in ids : messages[i].timestamp >= t}) >= k

\* a page request for a room, offset >= 0 and limit > 0, during which the
\* room received no message: the room holds log[i].mid messages
PageCase(i) ==
  /\ PageReply(i)
  /\ handlers[log[i].h].room # ""
  /\ handlers[log[i].h].off >= 0
  /\ handlers[log[i].h].lim > 0
  /\ Cardinality(RoomAt(log[i].h)) = log[i].mid

PageOutcome(i) ==
  LET h == log[i].h
      off == handlers[h].off
      lim == handlers[h].lim
      n == log[i].mid
      page == log[i].seq
  IN /\ Len(page) = Min(lim, Max(0, n - off))
     /\ \A j \in DOMAIN page : page[j] \in RoomAt(h)
     /\ \A j, k \in DOMAIN page : j # k => page[j] # page[k]
     /\ \A j \in DOMAIN page :
          messages[page[j]].timestamp =
            StampAtRank(RoomAt(h), off + Len(page) - j + 1)
     /\ log[i].more = (off + lim < n)

\* C5: for a room holding N messages, offset >= 0 and limit > 0, a page
\* request returns min(limit, max(0, N - offset)) messages of the room,
\* those ranked offset+1 .. offset+limit by descending timestamp, listed
\* in ascending timestamp order, and hasMore is true exactly when
\* offset + limit < N.
C5_PageWindow == \A i \in DOMAIN log : PageCase(i) => PageOutcome(i)

\* C5 witness: a page in the middle of a room: messages before and after
C5_Witness ==
  \E i \in DOMAIN log :
    /\ PageCase(i) /\ PageOutcome(i)
    /\ handlers[log[i].h].off > 0
    /\ Len(log[i].seq) > 0
    /\ log[i].more

\* the disconnect handler of a bound connection that was in the typing map
TypingDisconnect(h) ==
  /\ handlers[h].kind = "disconnect"
  /\ handlers[h].bound
  /\ handlers[h].flag

\* C6 (as claimed): when a bound connection that is in the typing map
\* disconnects, the typing_users broadcast of its disconnect handler does
\* not contain its entry, the user_list broadcast beside it does not list
\* it as online, and its User document, while offline, carries the
\* disconnect's lastSeen.
C6_DisconnectClearsTyping ==
  \A h \in DOMAIN handlers :
    TypingDisconnect(h) =>
      /\ \A i \in Emitted(h, "typing_users") : Self(h) \notin DOMAIN log[i].map
      /\ \A i \in Emitted(h, "user_list") : Self(h) \notin log[i].set
      /\ (handlers[h].pc = "done" /\ ~handlers[h].failed
            /\ ~users[Self(h)].isOnline)
           => users[Self(h)].lastSeen = handlers[h].ts

\* no handler of connection c is in flight
Quiet(c) == \A k \in DOMAIN handlers : Self(k) = c => ~InFlight(k)

\* C7 (as claimed): once the disconnect handler of a connection has
\* finished and no handler of the connection is in flight, the typing map
\* has no entry of the connection.
C7_NoStaleTyping ==
  \A h \in DOMAIN handlers :
    (handlers[h].kind = "disconnect" /\ Quiet(Self(h)))
      => Self(h) \notin DOMAIN typingUsers

SocketHandlers ==
  {"user_join", "send_message", "create_room", "join_room", "typing",
   "private_message", "add_reaction", "message_read", "share_file",
   "load_messages", "search_messages", "disconnect"}

\* C8 (as claimed): whenever a store operation has failed in a socket
\* handler, the handler has emitted an error event, and its error events
\* go to no connection but the one the handler runs for.
C8_FailureReported ==
  \A h \in DOMAIN handlers :
    (handlers[h].kind \in SocketHandlers /\ handlers[h].failed) =>
      /\ Emitted(h, "error") # {}
      /\ \A i \in Emitted(h, "error") : log[i].dest \subseteq {Self(h)}

\* the add_reaction handler h finds no message and its update does not fail
ReactsToMissing(h) ==
  /\ At(h, "add_reaction", "update")
  /\ handlers[h].mid \notin DOMAIN messages
  /\ handlers'[h].pc = "done"
  /\ ~handlers'[h].failed

Recipient(h) == {handlers[h].name} \cap Conn

\* C10 (as claimed): the private_message events of a private_message
\* handler reach no connection other than the one `to` identifies and the
\* sender, and its new_message_notification none other than the one `to`
\* identifies.
C10_PrivateStaysPrivate ==
  \A i \in DOMAIN log :
    handlers[log[i].h].kind = "private_message" =>
      /\ log[i].ev = "private_message"
           => log[i].dest \subseteq Recipient(log[i].h) \cup {Self(log[i].h)}
      /\ log[i].ev = "new_message_notification"
           => log[i].dest \subseteq Recipient(log[i].h)

\* the events user_join emits
JoinEvents == {"user_list", "user_joined", "room_list"}

\* the user_join handler h takes its last step, with success
UserJoinSucceeds(h) ==
  /\ At(h, "user_join", "findRooms")
  /\ handlers'[h].pc = "done"
  /\ ~handlers'[h].failed

\* what a user_join that no other handler of its connection overlapped
\* leaves for its connection
UserJoinLeaves(h) ==
  /\ users'[Self(h)].exists
  /\ users'[Self(h)].isOnline
  /\ users'[Self(h)].currentRoom = General
  /\ users'[Self(h)].username = handlers[h].name
  /\ Self(h) \in DOMAIN rooms'[General].users
  /\ rooms'[General].users[Self(h)] = handlers[h].name

SendMessageSucceeds(h) ==
  /\ handlers[h].kind = "send_message"
  /\ InFlight(h)
  /\ handlers'[h].pc = "done"
  /\ ~handlers'[h].failed

\* the connections, other than c, of the users that are online in room
OnlineIn(room, c) ==
  {u \in Connected \ {c} :
     users[u].exists /\ users[u].isOnline /\ users[u].currentRoom = room}

\* the connections the events ev of log positions from..to reach
Reached(q, from, to, ev) ==
  UNION {q[i].dest : i \in {j \in from..to : q[j].ev = ev}}

\* C12 (as claimed): the step that completes a send_message pushes
\* new_message_notification to exactly the other connections whose User is
\* online with currentRoom = the target room ("general" when the payload
\* names none), and ends with message_delivered to the sender, the message
\* being stored and its receive_message broadcast emitted.
C12_NotifiesRoomUsers ==
  [][\A h \in DOMAIN handlers :
       SendMessageSucceeds(h) =>
         /\ Reached(log', Len(log) + 1, Len(log'), "new_message_notification")
              = OnlineIn(TargetRoom(handlers[h].room), Self(h))
         /\ log'[Len(log')].ev = "message_delivered"
         /\ log'[Len(log')].dest \subseteq {Self(h)}
         /\ handlers[h].mid \in DOMAIN messages
         /\ \E i \in 1..(Len(log') - 1) :
              log'[i].h = h /\ log'[i].ev = "receive_message"]_vars

\* the broadcasts of the disconnect handler
LeaveEvents == {"user_list", "typing_users", "user_left"}

\* C13 (as claimed): the disconnect handler of a bound connection emits
\* none of user_list, typing_users and user_left while the typing map or a
\* room's member map still holds the connection.
C13_PurgeBeforeBroadcast ==
  \A i \in DOMAIN log :
    (/\ handlers[log[i].h].kind = "disconnect"
     /\ handlers[log[i].h].bound
     /\ log[i].ev \in LeaveEvents)
      => log[i].held = {}

\* text has queryText in it, whatever the case of either
Contains(queryText, text) ==
  \E i \in 0..(Len(text) - Len(queryText)) :
    \A k \in 1..Len(queryText) :
      ToLowerChar(text[i + k]) = ToLowerChar(queryText[k])

\* the messages search(queryText, roomId) is to return
Sought(queryText, roomId) ==
  {m \in DOMAIN messages :
     /\ \/ Contains(queryText, Chars(messages[m].message))
        \/ Contains(queryText, Chars(messages[m].sender))
     /\ roomId # "" => messages[m].room = roomId}

SearchKinds == {"search_messages", "get_search"}
SearchReplies == {"search_results", "search_json"}

\* C14 (as claimed): every search that completes, from a socket or from
\* GET /api/search, replies with exactly the messages whose text or sender
\* has the query in it in any case, of the room if one is given, newest
\* first and at most 50 of them: the same for both, for the same inputs.
C14_SearchExact ==
  \A h \in DOMAIN handlers :
    (handlers[h].kind \in SearchKinds /\ handlers[h].pc = "done"
       /\ ~handlers[h].failed) =>
      \E i \in DOMAIN log :
        /\ log[i].h = h
        /\ log[i].ev \in SearchReplies
        /\ LET found == log[i].seq
               sought == Sought(handlers[h].res, handlers[h].room) IN
             /\ {found[k] : k \in DOMAIN found} = sought
             /\ Len(found) = Min(SearchLimit, Cardinality(sought))
             /\ \A k, l \in DOMAIN found :
                  k < l => messages[found[k]].timestamp
                             >= messages[found[l]].timestamp

\* the disconnect handler of connection c is under way
Leaving(c) ==
  \E h \in DOMAIN handlers :
    handlers[h].kind = "disconnect" /\ Self(h) = c /\ InFlight(h)

\* connection c is there and its User is online
Online(c) == connected[c] /\ users[c].exists /\ users[c].isOnline

\* C15 (as claimed): every key of every room's member map is a connection
\* that has not disconnected and whose User is online, the time its
\* disconnect handler takes to purge it apart.
C15_MembersAreOnline ==
  \A r \in RoomIds : \A c \in Members(r) : Leaving(c) \/ Online(c)

\* C16 (as claimed): no connection is a key of the member maps of two
\* rooms.
C16_OneRoomOfRecord ==
  \A c \in Conn : Cardinality(MemberOf(c)) <= 1

\* the messages stored with room = room
CreatedIn(room) == {m \in DOMAIN messages : messages[m].room = room}

\* C17 (as claimed): whenever no handler is in flight, each room's
\* messageCount is the number of stored messages whose room is that room,
\* whichever of send_message, share_file and private_message stored them.
C17_CountIsExact ==
  (\A h \in DOMAIN handlers : ~InFlight(h)) =>
    \A r \in RoomIds :
      rooms[r].exists => rooms[r].messageCount = Cardinality(CreatedIn(r))

\* C18: no step takes the messageCount of a room to a smaller value (nor
\* the room away).
C18_CountNeverDecreases ==
  [][\A r \in RoomIds :
       rooms[r].exists =>
         /\ rooms'[r].exists
         /\ rooms'[r].messageCount >= rooms[r].messageCount]_vars

\* two send_message handlers to one room have overlapped (the one that
\* stored its message first has counted and broadcast it last) and the
\* room counts both
C18_Witness ==
  \E h, k \in DOMAIN handlers :
    /\ Completed(h, "send_message")
    /\ Completed(k, "send_message")
    /\ handlers[h].room = handlers[k].room
    /\ handlers[h].mid < handlers[k].mid
    /\ \E i \in Emitted(h, "receive_message") :
         \E j \in Emitted(k, "receive_message") : j < i
    /\ rooms[TargetRoom(handlers[h].room)].messageCount = 2

\* the typing handler h takes its step, with success
TypingSucceeds(h) ==
  /\ At(h, "typing", "findUser")
  /\ handlers'[h].pc = "done"
  /\ ~handlers'[h].failed

\* the typing map keeps the entry, or the absence, of connection d
SameEntry(d) ==
  /\ d \in DOMAIN typingUsers' <=> d \in DOMAIN typingUsers
  /\ d \in DOMAIN typingUsers => typingUsers'[d] = typingUsers[d]

\* C19: a typing event of a connection with no User leaves the typing map
\* as it is and emits nothing; of a connection with a User it leaves the
\* connection's entry set to the username (isTyping true) or absent
\* (isTyping false), every other entry as it was, and emits one event,
\* typing_users with the whole map, to every connection.
C19_TypingFrame ==
  [][\A h \in DOMAIN handlers :
       TypingSucceeds(h) =>
         IF ~users[Self(h)].exists
         THEN typingUsers' = typingUsers /\ log' = log
         ELSE /\ handlers[h].flag =>
                   /\ Self(h) \in DOMAIN typingUsers'
                   /\ typingUsers'[Self(h)] = users[Self(h)].username
              /\ ~handlers[h].flag => Self(h) \notin DOMAIN typingUsers'
              /\ \A d \in Conn \ {Self(h)} : SameEntry(d)
              /\ Len(log') = Len(log) + 1
              /\ SubSeq(log', 1, Len(log)) = log
              /\ log'[Len(log')].ev = "typing_users"
              /\ log'[Len(log')].dest = Connected
              /\ log'[Len(log')].map = typingUsers']_vars

\* a typing(true) has left its entry beside the other connection's and
\* both connections were sent both
C19_Witness ==
  \E h \in DOMAIN handlers :
    /\ Completed(h, "typing")
    /\ handlers[h].flag
    /\ \E i \in Emitted(h, "typing_users") :
         /\ DOMAIN log[i].map = Conn
         /\ log[i].dest = Conn

PageKinds == {"load_messages", "get_messages"}

\* a page request whose offset or limit is negative or not a number
EdgePage(h) ==
  /\ handlers[h].kind \in PageKinds
  /\ handlers[h].off < 0 \/ handlers[h].lim < 0 \/ handlers[h].nan # {}

\* offset clamped to 0, limit replaced by the default
ClampedOffset(h) ==
  IF "offset" \in handlers[h].nan \/ handlers[h].off < 0 THEN 0
  ELSE handlers[h].off

ClampedLimit(h) ==
  IF "limit" \in handlers[h].nan \/ handlers[h].lim < 0 THEN DefaultLimit
  ELSE handlers[h].lim

\* the reply at log position i is the page of the clamped values
ClampedOutcome(i) ==
  LET h == log[i].h
      off == ClampedOffset(h)
      lim == ClampedLimit(h)
      n == Cardinality(RoomAt(h))
      page == log[i].seq
  IN /\ Len(page) = Min(lim, Max(0, n - off))
     /\ \A j \in DOMAIN page : page[j] \in RoomAt(h)
     /\ \A j, k \in DOMAIN page : j # k => page[j] # page[k]
     /\ \A j \in DOMAIN page :
          messages[page[j]].timestamp =
            StampAtRank(RoomAt(h), off + Len(page) - j + 1)
     /\ log[i].more = (off + lim < n)

\* C20 (as claimed): a page request with a negative or non-numeric offset
\* or limit does not fail, and once it is done it has replied with the
\* page that offset clamped to 0 and limit replaced by 50 produce.
C20_EdgesAreClamped ==
  \A h \in DOMAIN handlers :
    (EdgePage(h) /\ handlers[h].pc = "done") =>
      /\ ~handlers[h].failed
      /\ \E i \in DOMAIN log :
           log[i].h = h /\ PageReply(i) /\ ClampedOutcome(i)

\* the add_reaction handler h finds its message and its update does not
\* fail
ReactsToStored(h) ==
  /\ At(h, "add_reaction", "update")
  /\ handlers[h].mid \in DOMAIN messages
  /\ handlers'[h].pc = "done"
  /\ ~handlers'[h].failed

\* C21: an add_reaction of connection c on a stored message leaves the
\* message's reactions with the given token under c (one entry per
\* connection, whatever c had before), every other connection's entry as
\* it was, the rest of the message and every other message unchanged.
C21_ReactionFrame ==
  [][\A h \in DOMAIN handlers :
       ReactsToStored(h) =>
         LET m == handlers[h].mid
             old == messages[m].reactions
             new == messages'[m].reactions
         IN /\ DOMAIN messages' = DOMAIN messages
            /\ Self(h) \in DOMAIN new
            /\ new[Self(h)] = handlers[h].text
            /\ \A d \in Conn \ {Self(h)} :
                 /\ d \in DOMAIN new <=> d \in DOMAIN old
                 /\ d \in DOMAIN old => new[d] = old[d]
            /\ DOMAIN new \subseteq DOMAIN old \cup {Self(h)}
            /\ [messages'[m] EXCEPT !.reactions = old] = messages[m]
            /\ \A k \in DOMAIN messages \ {m} :
                 messages'[k] = messages[k]]_vars

\* a connection has reacted twice to one message, with two tokens: the
\* message holds its second token beside the other connection's reaction
C21_Witness ==
  \E h, k \in DOMAIN handlers :
    /\ h < k
    /\ Completed(h, "add_reaction")
    /\ Completed(k, "add_reaction")
    /\ Self(h) = Self(k)
    /\ handlers[h].mid = handlers[k].mid
    /\ handlers[h].mid \in DOMAIN messages
    /\ handlers[h].text # handlers[k].text
    /\ handlers[h].solo
    /\ LET r == messages[handlers[h].mid].reactions IN
         /\ DOMAIN r = Conn
         /\ r[Self(h)] = handlers[k].text

\* message m leaves the step with nothing but its reactions and its read
\* flag changed, and read not withdrawn
KeptBut(m) ==
  /\ [messages'[m] EXCEPT !.reactions = messages[m].reactions,
                         !.read = messages[m].read] = messages[m]
  /\ messages[m].read => messages'[m].read

\* C22: every stored message is delivered; no step removes a stored
\* message, or changes anything of it but its reactions and its read flag,
\* or takes its read flag from true to false.
C22_MessagesAreKept ==
  /\ [](\A m \in DOMAIN messages : messages[m].delivered)
  /\ [][/\ DOMAIN messages \subseteq DOMAIN messages'
        /\ \A m \in DOMAIN messages : KeptBut(m)]_vars

\* two message_read handlers have completed on the same stored message,
\* which holds reactions: the later of them acted on a message already read
C22_Witness ==
  \E h, k \in DOMAIN handlers :
    /\ h # k
    /\ Completed(h, "message_read")
    /\ Completed(k, "message_read")
    /\ handlers[h].mid = handlers[k].mid
    /\ handlers[h].mid \in DOMAIN messages
    /\ messages[handlers[h].mid].read
    /\ messages[handlers[h].mid].reactions # EmptyMap

\* the disconnect handler h has completed and event i was emitted after
\* its last event
After(h, i) ==
  /\ Completed(h, "disconnect")
  /\ \A k \in DOMAIN log : log[k].h = h => k < i

\* C23 (as claimed): once the disconnect handler of a connection has
\* completed, the connection's User, if there is one, is offline, and no
\* user_list emitted afterwards holds the connection.
C23_GoneIsTerminal ==
  \A h \in DOMAIN handlers :
    Completed(h, "disconnect") =>
      /\ users[Self(h)].exists => ~users[Self(h)].isOnline
      /\ \A i \in DOMAIN log :
           (After(h, i) /\ log[i].ev = "user_list") =>
             Self(h) \notin log[i].set

\* the replies that carry a page of messages
PageEvents == {"messages_loaded", "messages_json"}

\* C24 (as claimed): no page that load_messages or GET /api/messages
\* returns, for any room, holds a message that private_message stored.
C24_PagesHoldNoPrivate ==
  \A i \in DOMAIN log :
    log[i].ev \in PageEvents =>
      \A k \in DOMAIN log[i].seq : ~messages[log[i].seq[k]].isPrivate

\* the send_message handler h has stored its message
Persisted(h) ==
  /\ h \in DOMAIN handlers
  /\ handlers[h].kind = "send_message"
  /\ handlers[h].mid \in DOMAIN messages

\* a receive_message for the message of handler h has been emitted
Broadcast(h) ==
  \E i \in DOMAIN log :
    /\ log[i].h = h
    /\ log[i].ev = "receive_message"
    /\ log[i].mid = handlers[h].mid

\* C25 (as claimed): once a send_message handler has stored its message, a
\* receive_message for that message is eventually emitted, whether or not
\* the store operation that follows the insert rejects.
C25_PersistedIsBroadcast ==
  \A h \in 1..MaxHandlers : Persisted(h) ~> Broadcast(h)

\* the receive_message events of send_message handlers
Casts ==
  {i \in DOMAIN log : /\ log[i].ev = "receive_message"
                      /\ handlers[log[i].h].kind = "send_message"}

\* C26 (as claimed): of two receive_message broadcasts of send_message
\* handlers to the same room, the earlier one carries the message whose
\* timestamp is not the later.
C26_BroadcastInStampOrder ==
  \A i, j \in Casts :
    (i < j /\ log[i].room = log[j].room) =>
      messages[log[i].mid].timestamp <= messages[log[j].mid].timestamp

\* C27 (as claimed): whenever no handler is in flight, the currentRoom of
\* every online User is a room that exists, and it is the one room whose
\* member map holds the User's connection.
C27_CurrentRoomIsRoomOfRecord ==
  (\A h \in DOMAIN handlers : ~InFlight(h)) =>
    \A c \in Conn :
      (users[c].exists /\ users[c].isOnline) =>
        /\ users[c].currentRoom \in RoomIds
        /\ rooms[users[c].currentRoom].exists
        /\ MemberOf(c) = {users[c].currentRoom}

====
